---- MODULE Spec2Model ----
(***************************************************************************)
(* The weather intelligence pipeline of the WeatherPrediction page         *)
(* (src/frontend/src/pages/Home.jsx, the component of lines 543-1044):     *)
(* resolveLocation, fetchRealWeatherData with its daily aggregation,       *)
(* generateFarmingAdvice, generateMockWeatherData and fetchWeatherData;    *)
(* and the crop selector of the Home page (src/unnamed/part_000).          *)
(*                                                                         *)
(* Conventions.  A text is a sequence of one-character strings.  Numbers   *)
(* of the provider are fixed-point integers: temperatures and rainfall in  *)
(* tenths, wind speed in tenths of m/s; a Math.random() draw is a number   *)
(* of hundredths in 0..99.  Dates are day numbers counted from today (0).  *)
(* A value that is null in the program is a record of its own (NoMsg,      *)
(* NoData, NoLoc, NoCur).  Floating point rounding error is not modelled.  *)
(***************************************************************************)
EXTENDS Integers, Sequences, FiniteSets, TLC

VARIABLES
    selectedLocation,   \* useState(''): the text of the location input
    weatherData,        \* useState(null): the displayed report
    loading,            \* useState(false)
    error,              \* useState(null): the message shown in the error box
    locationResolving,  \* useState(false)
    apiConfigured,      \* API_KEY && BASE_URL, fixed by the build environment
    pc,                 \* where the running fetchWeatherData is suspended
    locationData,       \* the invocation's resolved location, once known
    currentData,        \* the invocation's current-conditions response data
    samples,            \* forecast samples received so far (aggregation input)
    outcome,            \* history: how the last invocation ended
    lastErr,            \* history: err.message of the last catch (line 806)
    lastGeo,            \* history: kind of the geocoding response received
    candidates,         \* history: the candidate list of that response
    curRes, fcRes,      \* history: result of the two weather requests
    geoCalls, curCalls, fcCalls,  \* history: requests issued by the invocation
    mockRuns,           \* history: generateMockWeatherData calls of the invocation
    overlap,            \* history: an invocation started while one was suspended
    \* the Home page (src/unnamed/part_000)
    selectedCrop,       \* useState("wheat"): the text of the crop input
    availableCrops,     \* useState([])
    isDropdownOpen,     \* useState(false)
    filteredCrops,      \* useState([])
    homeLoading,        \* useState(true): the page's loading flag
    homeError,          \* useState(null): the page's error message
    cropData,           \* useState(null): the data displayed, by its crop
    cropsRequest,       \* whether the request of fetchAvailableCrops is pending
    pendingCrops,       \* the fetchCropData calls in flight, by crop name
    lastEvent,          \* history: the handler that ran last on the page
    \* the Chatbot page (src/frontend/src/pages/Home.jsx, lines 1045-1222)
    messages,           \* useState([greeting]): the messages displayed
    inputMessage,       \* useState(''): the text of the textarea
    isTyping,           \* useState(false): the typing indicator
    timers,             \* the setTimeout callbacks of handleSendMessage not yet run
    \* the forecast table of the Home page and the ForecastChart component
    currentMonth,       \* forecast.current_month of the crop data (0: absent)
    priceCount,         \* predicted_prices.length
    tableLabels,        \* the Month cells of the Detailed Monthly Forecast table
    chartLabels         \* the labels of the chart

weatherVars == <<selectedLocation, weatherData, loading, error, locationResolving,
          apiConfigured, pc, locationData, currentData, samples, outcome,
          lastErr, lastGeo, candidates, curRes, fcRes, geoCalls, curCalls,
          fcCalls, mockRuns, overlap>>

cropVars == <<selectedCrop, availableCrops, isDropdownOpen, filteredCrops,
              homeLoading, homeError, cropData, cropsRequest, pendingCrops,
              lastEvent>>

chatVars == <<messages, inputMessage, isTyping, timers>>

forecastVars == <<currentMonth, priceCount, tableLabels, chartLabels>>

vars == <<weatherVars, cropVars, chatVars, forecastVars>>

-----------------------------------------------------------------------------
(* Arithmetic helpers *)

Min(a, b) == IF a <= b THEN a ELSE b

\* Math.round(n / d) for d > 0: floor(n/d + 1/2)
RoundDiv(n, d) == (2 * n + d) \div (2 * d)

RECURSIVE SumSeq(_)
SumSeq(s) == IF s = <<>> THEN 0 ELSE Head(s) + SumSeq(Tail(s))

RECURSIVE MaxSeq(_)
MaxSeq(s) == IF Len(s) = 1 THEN Head(s)
             ELSE LET m == MaxSeq(Tail(s)) IN IF Head(s) >= m THEN Head(s) ELSE m

RECURSIVE MinSeq(_)
MinSeq(s) == IF Len(s) = 1 THEN Head(s)
             ELSE LET m == MinSeq(Tail(s)) IN IF Head(s) <= m THEN Head(s) ELSE m

-----------------------------------------------------------------------------
(* Texts: String.prototype.trim, toLowerCase, includes *)

IsSpace(c) == c \in {" ", "\t", "\n"}

RECURSIVE TrimStart(_)
TrimStart(t) == IF t # <<>> /\ IsSpace(Head(t)) THEN TrimStart(Tail(t)) ELSE t

RECURSIVE TrimEnd(_)
TrimEnd(t) == IF t # <<>> /\ IsSpace(t[Len(t)])
              THEN TrimEnd(SubSeq(t, 1, Len(t) - 1)) ELSE t

Trim(t) == TrimEnd(TrimStart(t))

LowerChar(c) == CASE c = "D" -> "d" [] c = "M" -> "m" [] c = "B" -> "b"
                  [] c = "C" -> "c" [] c = "K" -> "k" [] c = "H" -> "h"
                  [] c = "P" -> "p" [] c = "J" -> "j" [] c = "Z" -> "z"
                  [] c = "A" -> "a" [] c = "W" -> "w" [] c = "R" -> "r"
                  [] c = "S" -> "s"
                  [] OTHER -> c

ToLowerCase(t) == [i \in 1..Len(t) |-> LowerChar(t[i])]

Includes(t, sub) ==
    \E i \in 0..(Len(t) - Len(sub)) : SubSeq(t, i + 1, i + Len(sub)) = sub

-----------------------------------------------------------------------------
(* Null values and messages *)

NoMsg  == [tag |-> "null"]
NoData == [source |-> "null"]
NoLoc  == [kind |-> "null"]
NoCur  == [kind |-> "null"]

MsgEnterLocation == [tag |-> "Please enter a location name"]
MsgTooShort == [tag |-> "Location name must be at least 2 characters long"]
MsgConfigMissing == [tag |-> "API configuration is missing"]
MsgInvalidKey == [tag |-> "Invalid API key. Please check your configuration."]
MsgTooMany == [tag |-> "Too many requests. Please wait a moment and try again."]
MsgNotFoundSpelling(t) ==
    [tag |-> "Location not found. Please check spelling or try a nearby city.",
     text |-> t]
MsgNotFoundDifferent(t) ==
    [tag |-> "Location not found. Please try a different location.", text |-> t]
MsgUnableToFind(t, inner) ==
    [tag |-> "Unable to find location", text |-> t, inner |-> inner]
\* the messages of axios' own errors
MsgNetworkError == [tag |-> "Network Error"]
MsgStatus(code) == [tag |-> "Request failed with status code", status |-> code]
MsgTypeError == [tag |-> "TypeError: cannot read properties of undefined"]

-----------------------------------------------------------------------------
(* The built-in locations of the dropdown version of the page, and the     *)
(* match against them that the design document specifies for resolution.   *)

locations ==
    << [label |-> <<"D","e","l","h","i">>, lat |-> 286139, lon |-> 772090],
       [label |-> <<"M","u","m","b","a","i">>, lat |-> 190760, lon |-> 728777],
       [label |-> <<"B","a","n","g","a","l","o","r","e">>, lat |-> 129716, lon |-> 775946],
       [label |-> <<"C","h","e","n","n","a","i">>, lat |-> 130827, lon |-> 802707],
       [label |-> <<"K","o","l","k","a","t","a">>, lat |-> 225726, lon |-> 883639],
       [label |-> <<"H","y","d","e","r","a","b","a","d">>, lat |-> 173850, lon |-> 784867],
       [label |-> <<"P","u","n","e">>, lat |-> 185204, lon |-> 738567],
       [label |-> <<"J","a","i","p","u","r">>, lat |-> 269124, lon |-> 757873] >>

\* locations.find(loc => loc.label.toLowerCase() === text.toLowerCase()), else
\* locations.find(loc => loc.label.toLowerCase().includes(text.toLowerCase()));
\* 0 when neither finds an entry, else the index of the entry found
BuiltinMatch(t) ==
    LET low == ToLowerCase(t)
        exact == {i \in 1..Len(locations) : ToLowerCase(locations[i].label) = low}
        part == {i \in 1..Len(locations) :
                    Includes(ToLowerCase(locations[i].label), low)}
        first(S) == CHOOSE i \in S : \A j \in S : i <= j
    IN IF exact # {} THEN first(exact)
       ELSE IF part # {} THEN first(part) ELSE 0

-----------------------------------------------------------------------------
(* Helper functions of the component *)

getWeatherCondition(weatherMain) ==
    CASE weatherMain = "Clear" -> "Sunny"
      [] weatherMain = "Clouds" -> "Cloudy"
      [] weatherMain = "Rain" -> "Rainy"
      [] weatherMain = "Drizzle" -> "Rainy"
      [] weatherMain = "Thunderstorm" -> "Thunderstorm"
      [] weatherMain = "Snow" -> "Snowy"
      [] weatherMain \in {"Mist", "Fog", "Haze"} -> "Partly Cloudy"
      [] OTHER -> "Partly Cloudy"

getWeatherEmoji(weatherMain) ==
    CASE weatherMain = "Clear" -> "sun"
      [] weatherMain = "Clouds" -> "cloud"
      [] weatherMain = "Rain" -> "rain cloud"
      [] weatherMain = "Drizzle" -> "sun behind rain cloud"
      [] weatherMain = "Thunderstorm" -> "thunder cloud"
      [] weatherMain = "Snow" -> "snowflake"
      [] weatherMain \in {"Mist", "Fog", "Haze"} -> "fog"
      [] OTHER -> "sun behind small cloud"

\* arr.filter(v => v === a).length
CountOf(arr, a) == Cardinality({i \in 1..Len(arr) : arr[i] = a})

\* arr.sort((a, b) => count(a) - count(b)): a stable sort, ascending by the
\* number of occurrences (insertion after the last element that is not greater)
RECURSIVE SortByFrequency(_, _)
SortByFrequency(arr, all) ==
    IF arr = <<>> THEN <<>>
    ELSE LET init == SortByFrequency(SubSeq(arr, 1, Len(arr) - 1), all)
             x == arr[Len(arr)]
             keep == {i \in 1..Len(init) : CountOf(all, init[i]) <= CountOf(all, x)}
             k == IF keep = {} THEN 0 ELSE CHOOSE i \in keep : \A j \in keep : j <= i
         IN SubSeq(init, 1, k) \o <<x>> \o SubSeq(init, k + 1, Len(init))

\* lines 737-741; the variant takes, among the most frequent values, the one
\* that occurs first
getMostFrequent_firstTie(arr) ==
    LET top == {i \in 1..Len(arr) :
                   \A j \in 1..Len(arr) : CountOf(arr, arr[j]) <= CountOf(arr, arr[i])}
    IN arr[CHOOSE i \in top : \A j \in top : i <= j]

\* arr.sort(...).pop()
getMostFrequent(arr) == LET s == SortByFrequency(arr, arr) IN s[Len(s)]

\* lines 746-754; the variant compares with >= 15
RainAdvice_inclusive(currentWeather) ==
    IF currentWeather.rainfall >= 15
    THEN << "Heavy rainfall expected - ensure proper drainage in fields",
            "Postpone harvesting activities if possible",
            "Good time for transplanting rice and other water-loving crops" >>
    ELSE IF currentWeather.rainfall < 5
    THEN << "Low rainfall - consider irrigation for water-sensitive crops",
            "Good conditions for harvesting mature crops",
            "Monitor soil moisture levels closely" >>
    ELSE << >>

RainAdvice(currentWeather) ==
    IF currentWeather.rainfall > 15
    THEN << "Heavy rainfall expected - ensure proper drainage in fields",
            "Postpone harvesting activities if possible",
            "Good time for transplanting rice and other water-loving crops" >>
    ELSE IF currentWeather.rainfall < 5
    THEN << "Low rainfall - consider irrigation for water-sensitive crops",
            "Good conditions for harvesting mature crops",
            "Monitor soil moisture levels closely" >>
    ELSE << >>

\* lines 756-762
TempAdvice(currentWeather) ==
    IF currentWeather.tmax > 35
    THEN << "High temperatures - provide shade for livestock",
            "Schedule farm work during cooler hours" >>
    ELSE IF currentWeather.tmax < 20
    THEN << "Cool weather - protect sensitive crops from cold",
            "Consider frost protection measures" >>
    ELSE << >>

\* lines 764-767
HumidityAdvice(currentWeather) ==
    IF currentWeather.humidity > 80
    THEN << "High humidity - watch for fungal diseases in crops",
            "Ensure good air circulation in greenhouses" >>
    ELSE << >>

\* lines 769-772; the variant compares with >= 20
WindAdvice_inclusive(currentWeather) ==
    IF currentWeather.windSpeed >= 20
    THEN << "Strong winds expected - secure loose structures",
            "Protect young plants from wind damage" >>
    ELSE << >>

WindAdvice(currentWeather) ==
    IF currentWeather.windSpeed > 20
    THEN << "Strong winds expected - secure loose structures",
            "Protect young plants from wind damage" >>
    ELSE << >>

DefaultAdvice ==
    << "Normal weather conditions - continue regular farming activities" >>

\* lines 743-775; the variant evaluates the wind rule first
generateFarmingAdvice_windFirst(currentWeather) ==
    LET advice == WindAdvice(currentWeather) \o RainAdvice(currentWeather)
                  \o TempAdvice(currentWeather) \o HumidityAdvice(currentWeather)
    IN IF Len(advice) > 0 THEN advice ELSE DefaultAdvice

generateFarmingAdvice(currentWeather) ==
    LET advice == RainAdvice(currentWeather) \o TempAdvice(currentWeather)
                  \o HumidityAdvice(currentWeather) \o WindAdvice(currentWeather)
    IN IF Len(advice) > 0 THEN advice ELSE DefaultAdvice

-----------------------------------------------------------------------------
(* fetchRealWeatherData: the processing of the two responses *)

MaxForecastDays == 7

\* lines 631-644: the summary built from the current-conditions response
ProcessCurrent(data) ==
    [ date      |-> 0,
      tmax      |-> RoundDiv(data.temp_max, 10),
      tmin      |-> RoundDiv(data.temp_min, 10),
      humidity  |-> data.humidity,
      rainfall  |-> IF data.hasRain THEN RoundDiv(data.rain1h, 10) ELSE 0,
      windSpeed |-> RoundDiv(36 * data.speed, 100),
      condition |-> getWeatherCondition(data.main),
      icon      |-> getWeatherEmoji(data.main),
      src       |-> "current" ]

\* lines 647-663: the keys of dailyForecasts in insertion order, one per
\* distinct date of the list, ordered by first occurrence
RECURSIVE DateKeys(_)
DateKeys(list) ==
    IF list = <<>> THEN <<>>
    ELSE LET init == DateKeys(SubSeq(list, 1, Len(list) - 1))
             d == list[Len(list)].day
         IN IF \E i \in 1..Len(init) : init[i] = d THEN init ELSE Append(init, d)

\* lines 665-670: the samples pushed to one date's entry, in list order
DayGroup(list, d) == SelectSeq(list, LAMBDA s : s.day = d)

\* item.rain ? item.rain['3h'] || 0 : 0
RainOf(s) == IF s.hasRain THEN s.rain3h ELSE 0

\* line 674: Object.values(dailyForecasts).slice(0, 7); the variant without
\* the slice keeps every date
RetainedKeys_noSlice(keys) == keys

RetainedKeys(keys) == SubSeq(keys, 1, Min(MaxForecastDays, Len(keys)))

\* lines 674-686; the variant takes the mean of the rainfall, as it does of
\* the humidity and the wind, where line 682 takes the sum
DaySummary_meanRain(d, g) ==
    LET n == Len(g)
        temps == [i \in 1..n |-> g[i].temp]
        main == [i \in 1..n |-> g[i].main]
    IN [ date      |-> d,
         tmax      |-> RoundDiv(MaxSeq(temps), 10),
         tmin      |-> RoundDiv(MinSeq(temps), 10),
         humidity  |-> RoundDiv(SumSeq([i \in 1..n |-> g[i].humidity]), n),
         rainfall  |-> RoundDiv(SumSeq([i \in 1..n |-> RainOf(g[i])]), 10 * n),
         windSpeed |-> RoundDiv(36 * SumSeq([i \in 1..n |-> g[i].speed]), 100 * n),
         condition |-> getMostFrequent(main),
         icon      |-> getWeatherEmoji(getMostFrequent(main)),
         src       |-> "forecast" ]

\* lines 674-686: the summary mapped from one date's entry
DaySummary(d, g) ==
    LET n == Len(g)
        temps == [i \in 1..n |-> g[i].temp]
        main == [i \in 1..n |-> g[i].main]
    IN [ date      |-> d,
         tmax      |-> RoundDiv(MaxSeq(temps), 10),
         tmin      |-> RoundDiv(MinSeq(temps), 10),
         humidity  |-> RoundDiv(SumSeq([i \in 1..n |-> g[i].humidity]), n),
         rainfall  |-> RoundDiv(SumSeq([i \in 1..n |-> RainOf(g[i])]), 10),
         windSpeed |-> RoundDiv(36 * SumSeq([i \in 1..n |-> g[i].speed]), 100 * n),
         condition |-> getMostFrequent(main),
         icon      |-> getWeatherEmoji(getMostFrequent(main)),
         src       |-> "forecast" ]

\* lines 647-691: the forecast array, its first entry replaced by current;
\* the variant leaves out the replacement of lines 689-691
Aggregate_noOverride(current, list) ==
    LET keys == RetainedKeys(DateKeys(list))
    IN [i \in 1..Len(keys) |-> DaySummary(keys[i], DayGroup(list, keys[i]))]

Aggregate(current, list) ==
    LET keys == RetainedKeys(DateKeys(list))
        days == [i \in 1..Len(keys) |-> DaySummary(keys[i], DayGroup(list, keys[i]))]
    IN IF Len(days) > 0 THEN [days EXCEPT ![1] = current] ELSE days

\* lines 693-698
RealReport(loc, data, list) ==
    LET current == ProcessCurrent(data)
    IN [ source |-> "live",
         location |-> loc.label,
         current |-> current,
         forecast |-> Aggregate(current, list),
         farmingAdvice |-> generateFarmingAdvice(current) ]

-----------------------------------------------------------------------------
(* generateMockWeatherData.  tape[k] is the k-th Math.random() draw of the   *)
(* call, in hundredths.                                                     *)

MockDays == 7

DrawsPerDay == 7

NDraws == 3 + MockDays * DrawsPerDay

MockConditions == << "Sunny", "Partly Cloudy", "Cloudy", "Rainy", "Thunderstorm" >>

MockIcons == << "sun", "sun behind cloud", "cloud", "rain cloud", "thunder cloud" >>

\* lines 835-847: the i-th pushed day (i from 0), its draws in evaluation order
MockDay(i, tape) ==
    LET baseTemp == 15 * tape[1] + 2000
        baseHumidity == 30 * tape[2] + 5000
        baseRainfall == 20 * tape[3]
        r(j) == tape[3 + DrawsPerDay * i + j]
    IN [ date      |-> i,
         tmax      |-> RoundDiv(baseTemp + 8 * r(1) - 400, 100),
         tmin      |-> RoundDiv(baseTemp - 500 + 4 * r(2), 100),
         humidity  |-> RoundDiv(baseHumidity + 20 * r(3) - 1000, 100),
         rainfall  |-> RoundDiv(baseRainfall + 10 * r(4) - 500, 100),
         windSpeed |-> RoundDiv(15 * r(5) + 500, 100),
         condition |-> MockConditions[((5 * r(6)) \div 100) + 1],
         icon      |-> MockIcons[((5 * r(7)) \div 100) + 1],
         src       |-> "mock" ]

\* line 854; the variant always gives the normal-conditions message
MockAdvice_default(forecast) == DefaultAdvice

MockAdvice(forecast) == generateFarmingAdvice(forecast[1])

generateMockWeatherData(location, tape) ==
    LET forecast == [k \in 1..MockDays |-> MockDay(k - 1, tape)]
    IN [ source |-> "mock",
         location |-> location,
         current |-> forecast[1],
         forecast |-> forecast,
         farmingAdvice |-> MockAdvice(forecast) ]

-----------------------------------------------------------------------------
(* Inputs: what the user types, what Math.random() draws, what the          *)
(* providers answer.                                                        *)

TapePeriod == 2

RandVals == {0, 50, 99}

\* the draws of one generateMockWeatherData call: every periodic sequence of
\* period TapePeriod over RandVals
Tapes == { [k \in 1..NDraws |-> p[((k - 1) % TapePeriod) + 1]] :
              p \in [1..TapePeriod -> RandVals] }

Texts == { << >>,
           << " ", " " >>,
           << " ", "a", " " >>,
           << "d", "e", "l", "h", "i" >>,
           << "p", "u", "n" >>,
           << "z", "z", "z", "z", "z" >> }

GeoDelhi == [name |-> "Delhi", state |-> "Delhi", country |-> "IN",
             lat |-> 286517, lon |-> 772219]

GeoZzyzx == [name |-> "Zzyzx", state |-> "", country |-> "US",
             lat |-> 351428, lon |-> -1161042]

\* a response of the geocoding request: a list of candidates, an HTTP error
\* status, or no response at all
GeoResponses ==
    { [kind |-> "ok", list |-> l] :
        l \in { << >>, << GeoDelhi >>, << GeoZzyzx, GeoDelhi >> } }
    \cup { [kind |-> "http", status |-> c] : c \in {401, 404, 429, 500} }
    \cup { [kind |-> "network"] }

\* data of a current-conditions response; "malformed" lacks a field that
\* lines 631-644 read
CurrentDatas ==
    { [kind |-> "data", temp_max |-> 384, temp_min |-> 291, humidity |-> 85,
       hasRain |-> TRUE, rain1h |-> 196, speed |-> 70, main |-> "Rain"],
      [kind |-> "data", temp_max |-> 246, temp_min |-> 246, humidity |-> 60,
       hasRain |-> FALSE, rain1h |-> 0, speed |-> 31, main |-> "Smoke"],
      [kind |-> "malformed"] }

SamplePayloads ==
    { [temp |-> 184, humidity |-> 60, hasRain |-> FALSE, rain3h |-> 0,
       speed |-> 14, main |-> "Clear"],
      [temp |-> 253, humidity |-> 71, hasRain |-> TRUE, rain3h |-> 23,
       speed |-> 42, main |-> "Rain"] }

Sample(d, p) == [day |-> d, temp |-> p.temp, humidity |-> p.humidity,
                 hasRain |-> p.hasRain, rain3h |-> p.rain3h,
                 speed |-> p.speed, main |-> p.main]

\* the sample lists the forecast request answers with in Spec
PipelineLists ==
    LET a == CHOOSE p \in SamplePayloads : p.main = "Clear"
        b == CHOOSE p \in SamplePayloads : p.main = "Rain"
    IN { << >>,
         << Sample(0, a), Sample(0, b), Sample(1, b) >>,
         << Sample(1, b), Sample(1, a), Sample(2, a), Sample(2, b), Sample(2, a) >> }

WeatherFailures == { [kind |-> "http", status |-> 500], [kind |-> "network"] }

\* error.message of a rejected axios.get
AxiosMessage(resp) ==
    IF resp.kind = "http" THEN MsgStatus(resp.status) ELSE MsgNetworkError

-----------------------------------------------------------------------------
(* The crop selector of the Home page (src/unnamed/part_000)                *)

NoCrop == [tag |-> "null"]

Wheat == << "w", "h", "e", "a", "t" >>
Rice == << "r", "i", "c", "e" >>
Cotton == << "c", "o", "t", "t", "o", "n" >>
Maize == << "m", "a", "i", "z", "e" >>
Paddy == << "p", "a", "d", "d", "y" >>

\* line 56: the list set when the request for the crops fails
FallbackCrops == << Wheat, Rice, Cotton, Maize, Paddy >>

\* the lists the backend answers with; a crop name may have capitals
CropLists == { << << "W", "h", "e", "a", "t" >>, Rice >>,
               << Rice >> }

\* what the user can make the text of the crop input
CropTexts == { << >>, << "R" >>, << "z", "z" >>, Rice }

MsgCropsFailed == [tag |-> "Failed to load available crops. Please check if the backend is running on port 8001."]
MsgServerError == [tag |-> "Server error"]
MsgNoResponse == [tag |-> "No response from server. Please check if the backend is running on port 8001."]
MsgFailedToLoad(cropName) == [tag |-> "Failed to load data for", crop |-> cropName]

\* the ways a fetchCropData call fails (lines 86-101)
CropFailures == {"server", "noResponse", "other"}

CropFailureMessage(kind, cropName) ==
    CASE kind = "server" -> MsgServerError
      [] kind = "noResponse" -> MsgNoResponse
      [] OTHER -> MsgFailedToLoad(cropName)

\* in-flight fetchCropData calls the model follows at once
MaxCropFetches == 2

\* lines 158-164: the page shows only the loading line
SelectorRendered == ~(homeLoading /\ cropData = NoCrop)

\* lines 122-131
filterCrops(crops, searchTerm) ==
    LET valid(crop) == Len(Trim(crop)) > 0
        match(crop) == Includes(ToLowerCase(crop), ToLowerCase(searchTerm))
    IN SelectSeq(SelectSeq(crops, valid), match)

\* line 148: setIsDropdownOpen(false); the variant leaves the dropdown as it is
DropdownAfterSelect_keep(open) == open

DropdownAfterSelect(open) == FALSE

\* lines 28-32 and 60-64: the effect on selectedCrop calls fetchCropData for
\* a new, non-empty value; fetchCropData sets the flags and issues its requests
CropEffect(value) ==
    IF value # selectedCrop /\ value # << >>
    THEN /\ Len(pendingCrops) < MaxCropFetches
         /\ pendingCrops' = Append(pendingCrops, value)
         /\ homeLoading' = TRUE
         /\ homeError' = NoMsg
    ELSE UNCHANGED <<pendingCrops, homeLoading>> /\ homeError' = NoMsg

\* lines 140-144
handleInputClick ==
    /\ SelectorRendered
    /\ isDropdownOpen' = TRUE
    /\ filteredCrops' = availableCrops
    /\ lastEvent' = "inputClick"
    /\ UNCHANGED <<selectedCrop, availableCrops, homeLoading, homeError,
                   cropData, cropsRequest, pendingCrops>>
    /\ UNCHANGED <<weatherVars, chatVars, forecastVars>>

\* lines 133-138, with the effect of lines 28-32
handleCropChange ==
    /\ SelectorRendered
    /\ \E value \in CropTexts :
        /\ value # selectedCrop
        /\ selectedCrop' = value
        /\ filteredCrops' = filterCrops(availableCrops, value)
        /\ CropEffect(value)
    /\ lastEvent' = "change"
    /\ UNCHANGED <<availableCrops, isDropdownOpen, cropData, cropsRequest>>
    /\ UNCHANGED <<weatherVars, chatVars, forecastVars>>

\* lines 146-150 for a click on an option of the list (lines 200-208)
handleCropSelect ==
    /\ SelectorRendered /\ isDropdownOpen
    /\ \E i \in 1..Len(filteredCrops) :
        /\ selectedCrop' = filteredCrops[i]
        /\ CropEffect(filteredCrops[i])
    /\ isDropdownOpen' = DropdownAfterSelect(isDropdownOpen)
    /\ lastEvent' = "select"
    /\ UNCHANGED <<availableCrops, filteredCrops, cropData, cropsRequest>>
    /\ UNCHANGED <<weatherVars, chatVars, forecastVars>>

\* lines 152-156 for a mouse press whose target is outside dropdownRef (or
\* while the selector is not rendered and the ref is null)
handleClickOutside ==
    /\ isDropdownOpen' = FALSE
    /\ lastEvent' = "outside"
    /\ UNCHANGED <<selectedCrop, availableCrops, filteredCrops, homeLoading,
                   homeError, cropData, cropsRequest, pendingCrops>>
    /\ UNCHANGED <<weatherVars, chatVars, forecastVars>>

\* lines 194-197: a click on the backdrop of the open dropdown
BackdropClick ==
    /\ SelectorRendered /\ isDropdownOpen
    /\ isDropdownOpen' = FALSE
    /\ lastEvent' = "backdrop"
    /\ UNCHANGED <<selectedCrop, availableCrops, filteredCrops, homeLoading,
                   homeError, cropData, cropsRequest, pendingCrops>>
    /\ UNCHANGED <<weatherVars, chatVars, forecastVars>>

\* lines 218-224: the Analyze button calls fetchCropData(selectedCrop)
Analyze ==
    /\ SelectorRendered /\ ~homeLoading
    /\ Len(pendingCrops) < MaxCropFetches
    /\ pendingCrops' = Append(pendingCrops, selectedCrop)
    /\ homeLoading' = TRUE
    /\ homeError' = NoMsg
    /\ lastEvent' = "analyze"
    /\ UNCHANGED <<selectedCrop, availableCrops, isDropdownOpen, filteredCrops,
                   cropData, cropsRequest>>
    /\ UNCHANGED <<weatherVars, chatVars, forecastVars>>

\* lines 41-58: the request of fetchAvailableCrops settles
CropsResponse ==
    /\ cropsRequest
    /\ cropsRequest' = FALSE
    /\ \/ \E crops \in CropLists :
            availableCrops' = crops /\ UNCHANGED homeError
       \/ availableCrops' = FallbackCrops /\ homeError' = MsgCropsFailed
    /\ lastEvent' = "crops"
    /\ UNCHANGED <<selectedCrop, isDropdownOpen, filteredCrops, homeLoading,
                   cropData, pendingCrops>>
    /\ UNCHANGED <<weatherVars, chatVars, forecastVars>>

\* lines 66-105: the requests of one fetchCropData call settle
CropDataResponse ==
    /\ \E i \in 1..Len(pendingCrops) :
        /\ pendingCrops' = SubSeq(pendingCrops, 1, i - 1)
                           \o SubSeq(pendingCrops, i + 1, Len(pendingCrops))
        /\ \/ cropData' = [crop |-> pendingCrops[i]] /\ UNCHANGED homeError
           \/ \E kind \in CropFailures :
                /\ homeError' = CropFailureMessage(kind, pendingCrops[i])
                /\ UNCHANGED cropData
    /\ homeLoading' = FALSE
    /\ lastEvent' = "cropData"
    /\ UNCHANGED <<selectedCrop, availableCrops, isDropdownOpen, filteredCrops,
                   cropsRequest>>
    /\ UNCHANGED <<weatherVars, chatVars, forecastVars>>

\* lines 9-32: the state after the first render and its effects
HomeInit ==
    /\ selectedCrop = Wheat
    /\ availableCrops = << >>
    /\ isDropdownOpen = FALSE
    /\ filteredCrops = << >>
    /\ homeLoading = TRUE
    /\ homeError = NoMsg
    /\ cropData = NoCrop
    /\ cropsRequest = TRUE
    /\ pendingCrops = << Wheat >>
    /\ lastEvent = "mount"

-----------------------------------------------------------------------------
(* The Chatbot page (src/frontend/src/pages/Home.jsx, lines 1045-1222)      *)

Question1 ==
    << "W", "h", "a", "t", "'", "s", " ", "t", "h", "e", " ", "c", "u",
       "r", "r", "e", "n", "t", " ", "w", "h", "e", "a", "t", " ", "p",
       "r", "i", "c", "e", "?" >>

Question2 ==
    << "S", "h", "o", "w", " ", "m", "e", " ", "t", "o", "p", " ", "p",
       "e", "r", "f", "o", "r", "m", "i", "n", "g", " ", "c", "r", "o",
       "p", "s" >>

Question3 ==
    << "W", "e", "a", "t", "h", "e", "r", " ", "f", "o", "r", "e", "c",
       "a", "s", "t", " ", "f", "o", "r", " ", "f", "a", "r", "m", "i",
       "n", "g" >>

Question4 ==
    << "B", "e", "s", "t", " ", "t", "i", "m", "e", " ", "t", "o", " ",
       "s", "e", "l", "l", " ", "p", "a", "d", "d", "y", "?" >>

Question5 ==
    << "M", "a", "r", "k", "e", "t", " ", "t", "r", "e", "n", "d", "s",
       " ", "t", "h", "i", "s", " ", "m", "o", "n", "t", "h" >>

\* lines 1069-1075
quickQuestions == << Question1, Question2, Question3, Question4, Question5 >>

\* what the user can make the text of the textarea by typing
ChatTexts == { << >>, << " " >>, << "h", "i" >>, << "c", "o", "s", "t" >>,
               << "o", "k" >> }

\* user messages the model follows in one conversation
MaxChatMessages == 2

\* lines 1077-1101: the reply is chosen by the first group of keywords the
\* lowered message contains
generateBotResponse(userMessage) ==
    LET message == ToLowerCase(userMessage)
        has(word) == Includes(message, word)
    IN CASE has(<< "p", "r", "i", "c", "e" >>) \/ has(<< "c", "o", "s", "t" >>)
              -> "I can help you with current crop prices!"
         [] has(<< "w", "e", "a", "t", "h", "e", "r" >>)
              \/ has(<< "f", "o", "r", "e", "c", "a", "s", "t" >>)
              -> "Weather is crucial for farming decisions!"
         [] has(<< "t", "o", "p" >>) \/ has(<< "b", "e", "s", "t" >>)
              \/ has(<< "p", "e", "r", "f", "o", "r", "m" >>)
              -> "Based on our latest analysis, the top performing crops"
         [] has(<< "s", "e", "l", "l" >>) \/ has(<< "w", "h", "e", "n" >>)
              -> "Timing is everything in agriculture!"
         [] has(<< "h", "e", "l", "l", "o" >>) \/ has(<< "h", "i" >>)
              \/ has(<< "h", "e", "y" >>)
              -> "Hello there!"
         [] OTHER -> "That's an interesting question!"

\* the number of user messages displayed
UserMessages == Cardinality({k \in 1..Len(messages) : messages[k].sender = "user"})

\* lines 1103-1129: handleSendMessage up to its setTimeout; the callback is
\* kept in timers with the text it will append (inputMessage of this render)
handleSendMessage ==
    /\ Len(Trim(inputMessage)) > 0
    /\ UserMessages < MaxChatMessages
    /\ messages' = Append(messages, [sender |-> "user", text |-> inputMessage,
                                     number |-> UserMessages + 1])
    /\ inputMessage' = << >>
    /\ isTyping' = TRUE
    /\ timers' = timers \cup {[sender |-> "bot",
                               text |-> generateBotResponse(inputMessage),
                               number |-> UserMessages + 1]}

\* lines 1208-1214: the send button, disabled while the text is blank or the
\* typing indicator is shown
SendButton ==
    /\ ~(Len(Trim(inputMessage)) = 0 \/ isTyping)
    /\ handleSendMessage
    /\ UNCHANGED <<weatherVars, cropVars, forecastVars>>

\* lines 1135-1140: the Enter key without Shift in the textarea
handleKeyPress ==
    /\ handleSendMessage
    /\ UNCHANGED <<weatherVars, cropVars, forecastVars>>

\* line 1201: the user edits the text of the textarea
SetInputMessage ==
    /\ \E t \in ChatTexts : t # inputMessage /\ inputMessage' = t
    /\ UNCHANGED <<messages, isTyping, timers>>
    /\ UNCHANGED <<weatherVars, cropVars, forecastVars>>

\* lines 1131-1133 for a click on one of the quick buttons
handleQuickQuestion ==
    /\ \E k \in 1..Len(quickQuestions) : inputMessage' = quickQuestions[k]
    /\ UNCHANGED <<messages, isTyping, timers>>
    /\ UNCHANGED <<weatherVars, cropVars, forecastVars>>

\* lines 1117-1128: one of the pending callbacks runs (each was given its own
\* delay of 1000 + Math.random() * 2000 ms)
BotReply ==
    /\ \E reply \in timers :
        /\ messages' = Append(messages, reply)
        /\ timers' = timers \ {reply}
    /\ isTyping' = FALSE
    /\ UNCHANGED inputMessage
    /\ UNCHANGED <<weatherVars, cropVars, forecastVars>>

\* lines 1049-1058
ChatInit ==
    /\ messages = << [sender |-> "bot", text |-> "Hello! I'm your agricultural assistant.",
                      number |-> 0] >>
    /\ inputMessage = << >>
    /\ isTyping = FALSE
    /\ timers = {}

-----------------------------------------------------------------------------
(* The month labels of the predicted prices: the Detailed Monthly Forecast  *)
(* table (src/unnamed/part_000, lines 320-351) and the chart                *)
(* (src/frontend/src/components/ForecastChart.jsx, lines 37-56).  A label   *)
(* is a month name and a year counted from new Date().getFullYear().        *)

\* part_000 lines 327-340, ForecastChart.jsx lines 38-41
monthNames == << "Jan", "Feb", "Mar", "Apr", "May", "Jun",
                 "Jul", "Aug", "Sep", "Oct", "Nov", "Dec" >>

\* predicted prices of one response the model follows
MaxPrices == 12

\* x || y for a month number, the absent one being 0
OrElse(x, y) == IF x # 0 THEN x ELSE y

\* part_000 lines 341-350: the Month cell of the row of the given index
TableLabel(month, index) ==
    LET start == OrElse(month, 1)
        targetMonth == (start + index) % 12
    IN [month |-> monthNames[targetMonth + 1],
        year |-> IF start + index > 12 THEN 1 ELSE 0]

\* ForecastChart.jsx lines 37-53
generateMonthLabels(startMonth, count) ==
    [k \in 1..count |->
        LET i == k - 1
            monthIndex == (startMonth - 1 + i) % 12
        IN [month |-> monthNames[monthIndex + 1],
            year |-> (startMonth - 1 + i) \div 12]]

\* the crop data arrive and the page renders the table and the chart from
\* the same forecast; today is new Date().getMonth() + 1
RenderForecast ==
    /\ \E m \in 0..12, today \in 1..12, count \in 0..MaxPrices :
        /\ currentMonth' = m
        /\ priceCount' = count
        /\ tableLabels' = [k \in 1..count |-> TableLabel(m, k - 1)]
        /\ chartLabels' = generateMonthLabels(OrElse(m, today), count)
    /\ UNCHANGED <<weatherVars, cropVars, chatVars>>

\* no crop data yet: neither the table nor the chart is rendered
ForecastInit ==
    /\ currentMonth = 0
    /\ priceCount = 0
    /\ tableLabels = << >>
    /\ chartLabels = << >>

-----------------------------------------------------------------------------
(* resolveLocation *)

MinLocationLength == 2

\* lines 556-564: the message thrown before anything is requested, NoMsg
\* when the text passes
ResolveValidation(locationText) ==
    IF Trim(locationText) = << >> THEN MsgEnterLocation
    ELSE IF Len(Trim(locationText)) < MinLocationLength THEN MsgTooShort
    ELSE NoMsg

\* lines 581-594; the variant takes the last candidate of the list
LocationInfo_last(list) ==
    LET geoData == list[Len(list)]
    IN [ kind |-> "location",
         label |-> << geoData.name >>
                   \o (IF geoData.state # "" THEN << ", ", geoData.state >> ELSE << >>)
                   \o (IF geoData.country # "" THEN << ", ", geoData.country >> ELSE << >>),
         lat |-> geoData.lat, lon |-> geoData.lon,
         name |-> geoData.name, country |-> geoData.country,
         state |-> geoData.state ]

\* lines 585-591: the location built from the first candidate
LocationInfo(list) ==
    LET geoData == list[1]
    IN [ kind |-> "location",
         label |-> << geoData.name >>
                   \o (IF geoData.state # "" THEN << ", ", geoData.state >> ELSE << >>)
                   \o (IF geoData.country # "" THEN << ", ", geoData.country >> ELSE << >>),
         lat |-> geoData.lat, lon |-> geoData.lon,
         name |-> geoData.name, country |-> geoData.country,
         state |-> geoData.state ]

\* what the try block of lines 568-598 throws into its own catch: the
\* configuration error, the rejected request, or the error of line 597 for
\* an empty candidate list
ResolveCaught(trimmedText, resp) ==
    CASE resp.kind = "config" -> [kind |-> "plain", message |-> MsgConfigMissing]
      [] resp.kind = "ok" ->
            [kind |-> "plain", message |-> MsgNotFoundSpelling(trimmedText)]
      [] resp.kind = "http" ->
            [kind |-> "http", status |-> resp.status, message |-> AxiosMessage(resp)]
      [] OTHER -> [kind |-> "network", message |-> AxiosMessage(resp)]

\* lines 599-614: the message the catch block throws on
ResolveRethrow(trimmedText, e) ==
    IF e.kind = "http" /\ e.status = 401 THEN MsgInvalidKey
    ELSE IF e.kind = "http" /\ e.status = 429 THEN MsgTooMany
    ELSE IF e.kind = "http" /\ e.status = 404 THEN MsgNotFoundDifferent(trimmedText)
    ELSE MsgUnableToFind(trimmedText, e.message)

-----------------------------------------------------------------------------
(* fetchWeatherData *)

\* line 784: !selectedLocation.trim(); the variant tests the raw text
EmptyInput_noTrim(text) == text = << >>

EmptyInput(text) == Trim(text) = << >>

\* line 811: selectedLocation || 'Unknown Location'
MockLabel(text) == IF text = << >> THEN << "Unknown Location" >> ELSE text

\* line 811; the variant is a per-field fallback that keeps the current
\* conditions already fetched
MockData_partial(text, tape, cur) ==
    LET mock == generateMockWeatherData(MockLabel(text), tape)
    IN IF cur.kind = "data"
       THEN [mock EXCEPT !.current = ProcessCurrent(cur),
                         !.forecast[1] = ProcessCurrent(cur)]
       ELSE mock

MockData(text, tape, cur) == generateMockWeatherData(MockLabel(text), tape)

\* line 812: setWeatherData(mockData); the variant leaves the old report
PublishFallback_keep(old, mock) == old

PublishFallback(old, mock) == mock

\* lines 806 and 814: setError(err.message), then setError(null)
ErrorAfterFallback(err) == NoMsg

\* lines 876-882 and 903, 907: the input and the button are rendered, and
\* enabled, only while neither flag is set; the variant never disables them
ControlsEnabled_always == TRUE

ControlsEnabled == ~loading /\ ~locationResolving

\* line 820: setLoading(false) in finally; the variant resets the flag at
\* the end of the try block only, so not after a catch
LoadingAfterCatch_kept(flag) == flag

LoadingAfterCatch(flag) == FALSE

\* where the invocation stands after the catch block and finally of lines
\* 804-821: it is over; the variant goes back to the geocoding request
ResumeAfterCatch_retry == "geo"

ResumeAfterCatch == "idle"

\* lines 804-821: the catch block and finally, for the error err caught while
\* cur is the current-conditions data received (NoCur when none)
CatchAndFallback(err, cur) ==
    \E tape \in Tapes :
        /\ weatherData' = PublishFallback(weatherData,
                                          MockData(selectedLocation, tape, cur))
        /\ error' = ErrorAfterFallback(err)
        /\ loading' = LoadingAfterCatch(loading)
        /\ lastErr' = err
        /\ mockRuns' = 1
        /\ outcome' = "degraded"
        /\ pc' = ResumeAfterCatch

\* the user types in the location input (rendered and enabled only while
\* neither flag is set, lines 876-904)
SetSelectedLocation ==
    /\ ControlsEnabled
    /\ UNCHANGED <<cropVars, chatVars, forecastVars>>
    /\ \E t \in Texts : selectedLocation' = t
    /\ UNCHANGED <<weatherData, loading, error, locationResolving, apiConfigured,
                   pc, locationData, currentData, samples, outcome, lastErr,
                   lastGeo, candidates, curRes, fcRes, geoCalls, curCalls, fcCalls,
                   mockRuns, overlap>>

\* a click on the button (lines 905-909): fetchWeatherData up to its first
\* suspension, which is the geocoding request, or to its end
FetchWeatherData ==
    /\ ControlsEnabled
    /\ UNCHANGED <<cropVars, chatVars, forecastVars>>
    /\ overlap' = (overlap \/ pc # "idle")
    /\ locationData' = NoLoc /\ currentData' = NoCur /\ samples' = << >>
    /\ lastGeo' = "none" /\ curRes' = "none" /\ fcRes' = "none"
    /\ candidates' = << >>
    /\ curCalls' = 0 /\ fcCalls' = 0
    /\ UNCHANGED <<selectedLocation, apiConfigured>>
    /\ IF EmptyInput(selectedLocation)
       THEN /\ error' = MsgEnterLocation
            /\ outcome' = "invalid"
            /\ lastErr' = NoMsg /\ mockRuns' = 0 /\ geoCalls' = 0
            /\ UNCHANGED <<weatherData, loading, locationResolving, pc>>
       ELSE IF ResolveValidation(selectedLocation) # NoMsg
       THEN /\ CatchAndFallback(ResolveValidation(selectedLocation), NoCur)
            /\ geoCalls' = 0
            /\ UNCHANGED locationResolving
       ELSE IF ~apiConfigured
       THEN /\ CatchAndFallback(
                 ResolveRethrow(Trim(selectedLocation),
                     ResolveCaught(Trim(selectedLocation), [kind |-> "config"])),
                 NoCur)
            /\ geoCalls' = 0
            /\ locationResolving' = FALSE
       ELSE /\ loading' = TRUE
            /\ error' = NoMsg
            /\ locationResolving' = TRUE
            /\ geoCalls' = 1
            /\ pc' = "geo"
            /\ outcome' = "pending"
            /\ lastErr' = NoMsg /\ mockRuns' = 0
            /\ UNCHANGED weatherData

\* history: what the geocoding request answered
GeoKind(resp) ==
    CASE resp.kind = "ok" -> IF resp.list = << >> THEN "empty" ELSE "ok"
      [] resp.kind = "http" ->
            (CASE resp.status = 401 -> "http 401" [] resp.status = 404 -> "http 404"
               [] resp.status = 429 -> "http 429" [] OTHER -> "http other")
      [] OTHER -> "network"

\* the geocoding request settles: lines 578-614, then either the catch block
\* of fetchWeatherData or fetchRealWeatherData up to its first request
GeoResponse ==
    /\ pc = "geo"
    /\ UNCHANGED <<cropVars, chatVars, forecastVars>>
    /\ \E resp \in GeoResponses :
        /\ lastGeo' = GeoKind(resp)
        /\ candidates' = (IF resp.kind = "ok" THEN resp.list ELSE << >>)
        /\ locationResolving' = FALSE
        /\ IF resp.kind = "ok" /\ Len(resp.list) > 0
           THEN /\ locationData' = LocationInfo(resp.list)
                /\ curCalls' = curCalls + 1
                /\ pc' = "current"
                /\ UNCHANGED <<weatherData, loading, error, outcome, lastErr, mockRuns>>
           ELSE /\ CatchAndFallback(
                     ResolveRethrow(Trim(selectedLocation),
                         ResolveCaught(Trim(selectedLocation), resp)),
                     NoCur)
                /\ UNCHANGED <<locationData, curCalls>>
    /\ UNCHANGED <<selectedLocation, apiConfigured, currentData, samples,
                   curRes, fcRes, geoCalls, fcCalls, overlap>>

\* the current-conditions request settles: line 624, then the forecast
\* request of line 628 or the catch blocks
CurrentResponse ==
    /\ pc = "current"
    /\ UNCHANGED <<cropVars, chatVars, forecastVars>>
    /\ \/ \E data \in CurrentDatas :
            /\ currentData' = data
            /\ curRes' = "ok"
            /\ fcCalls' = fcCalls + 1
            /\ pc' = "forecast"
            /\ UNCHANGED <<weatherData, loading, error, outcome, lastErr, mockRuns>>
       \/ \E resp \in WeatherFailures :
            /\ curRes' = "failed"
            /\ CatchAndFallback(AxiosMessage(resp), NoCur)
            /\ UNCHANGED <<currentData, fcCalls>>
    /\ UNCHANGED <<selectedLocation, locationResolving, apiConfigured,
                   locationData, samples, lastGeo, candidates, fcRes, geoCalls, curCalls,
                   overlap>>

\* lines 631-698 and 802, 820 for a forecast response with the sample list
\* list; a malformed current-conditions response throws at line 635
ForecastDelivered(list) ==
    /\ samples' = list
    /\ fcRes' = "ok"
    /\ IF currentData.kind = "data"
       THEN /\ weatherData' = RealReport(locationData, currentData, list)
            /\ loading' = FALSE
            /\ outcome' = "ready"
            /\ pc' = "idle"
            /\ UNCHANGED <<error, lastErr, mockRuns>>
       ELSE CatchAndFallback(MsgTypeError, currentData)
    /\ UNCHANGED <<selectedLocation, locationResolving, apiConfigured,
                   locationData, currentData, lastGeo, candidates, curRes, geoCalls,
                   curCalls, fcCalls, overlap>>

\* the forecast request settles
ForecastResponse ==
    /\ pc = "forecast"
    /\ UNCHANGED <<cropVars, chatVars, forecastVars>>
    /\ \/ \E list \in PipelineLists : ForecastDelivered(list)
       \/ \E resp \in WeatherFailures :
            /\ fcRes' = "failed"
            /\ CatchAndFallback(AxiosMessage(resp), currentData)
            /\ UNCHANGED <<selectedLocation, locationResolving, apiConfigured,
                           locationData, currentData, samples, lastGeo, candidates,
                           curRes,
                           geoCalls, curCalls, fcCalls, overlap>>

Init ==
    /\ selectedLocation = << >>
    /\ weatherData = NoData
    /\ loading = FALSE
    /\ error = NoMsg
    /\ locationResolving = FALSE
    /\ apiConfigured \in BOOLEAN
    /\ pc = "idle"
    /\ locationData = NoLoc
    /\ currentData = NoCur
    /\ samples = << >>
    /\ outcome = "none"
    /\ lastErr = NoMsg
    /\ lastGeo = "none"
    /\ candidates = << >>
    /\ curRes = "none" /\ fcRes = "none"
    /\ geoCalls = 0 /\ curCalls = 0 /\ fcCalls = 0
    /\ mockRuns = 0
    /\ overlap = FALSE
    /\ HomeInit
    /\ ChatInit
    /\ ForecastInit

Next ==
    \/ SetSelectedLocation
    \/ FetchWeatherData
    \/ GeoResponse
    \/ CurrentResponse
    \/ ForecastResponse

Spec == Init /\ [][Next]_vars

\* the Home page on its own: the weather page stays as it is first rendered
HomeNext ==
    \/ handleInputClick
    \/ handleCropChange
    \/ handleCropSelect
    \/ handleClickOutside
    \/ BackdropClick
    \/ Analyze
    \/ CropsResponse
    \/ CropDataResponse

HomePageInit == Init /\ apiConfigured = TRUE

SpecCrop == HomePageInit /\ [][HomeNext]_vars

\* the Chatbot page on its own
ChatNext ==
    \/ SetInputMessage
    \/ handleQuickQuestion
    \/ SendButton
    \/ handleKeyPress
    \/ BotReply

SpecChat == HomePageInit /\ [][ChatNext]_vars

\* the rendering of the forecast on its own
SpecLabels == HomePageInit /\ [][RenderForecast]_vars

-----------------------------------------------------------------------------
(* The aggregation on its own: an invocation suspended at the forecast      *)
(* request, whose response is drawn from every sample list of at most       *)
(* MaxSamples samples in time order (three-hour steps: a sample is of the   *)
(* date of the sample before it or of the next date).                       *)

MaxSamples == 8

AggInit ==
    /\ selectedLocation = << "d", "e", "l", "h", "i" >>
    /\ weatherData = NoData
    /\ loading = TRUE
    /\ error = NoMsg
    /\ locationResolving = FALSE
    /\ apiConfigured = TRUE
    /\ pc = "forecast"
    /\ locationData = LocationInfo(<< GeoDelhi >>)
    /\ currentData = CHOOSE d \in CurrentDatas : d.kind = "data" /\ d.main = "Rain"
    /\ samples = << >>
    /\ outcome = "pending"
    /\ lastErr = NoMsg
    /\ lastGeo = "ok"
    /\ candidates = << GeoDelhi >>
    /\ curRes = "ok" /\ fcRes = "none"
    /\ geoCalls = 1 /\ curCalls = 1 /\ fcCalls = 1
    /\ mockRuns = 0
    /\ overlap = FALSE
    /\ HomeInit
    /\ ChatInit
    /\ ForecastInit

\* one more sample of the response that is on its way
AggPush ==
    /\ pc = "forecast"
    /\ UNCHANGED <<cropVars, chatVars, forecastVars>>
    /\ Len(samples) < MaxSamples
    /\ \E step \in {0, 1}, p \in SamplePayloads :
        LET last == IF samples = << >> THEN 0 ELSE samples[Len(samples)].day
        IN samples' = Append(samples, Sample(last + step, p))
    /\ UNCHANGED <<selectedLocation, weatherData, loading, error,
                   locationResolving, apiConfigured, pc, locationData,
                   currentData, outcome, lastErr, lastGeo, candidates, curRes, fcRes,
                   geoCalls, curCalls, fcCalls, mockRuns, overlap>>

\* the response arrives
AggDeliver ==
    /\ pc = "forecast"
    /\ UNCHANGED <<cropVars, chatVars, forecastVars>>
    /\ ForecastDelivered(samples)

AggNext == AggPush \/ AggDeliver

SpecAgg == AggInit /\ [][AggNext]_vars

-----------------------------------------------------------------------------
(* The summary of one date: the same suspended invocation, with samples of  *)
(* four different readings (one of them on the rounding boundaries) in      *)
(* lists of at most MaxDaySamples samples.                                  *)

MaxDaySamples == 5

\* 18.0, 22.0 and 25.0 degrees; wind 1.4, 2.8 and 4.2 m/s (5.04, 10.08 and
\* 15.12 km/h); the fourth on the halves: 22.5 degrees, 0.5 mm
DayPayloads ==
    { [temp |-> 180, humidity |-> 60, hasRain |-> FALSE, rain3h |-> 0,
       speed |-> 14, main |-> "Clouds"],
      [temp |-> 220, humidity |-> 65, hasRain |-> TRUE, rain3h |-> 20,
       speed |-> 28, main |-> "Rain"],
      [temp |-> 250, humidity |-> 70, hasRain |-> FALSE, rain3h |-> 0,
       speed |-> 42, main |-> "Clear"],
      [temp |-> 225, humidity |-> 66, hasRain |-> TRUE, rain3h |-> 5,
       speed |-> 35, main |-> "Mist"] }

DayPush ==
    /\ pc = "forecast"
    /\ UNCHANGED <<cropVars, chatVars, forecastVars>>
    /\ Len(samples) < MaxDaySamples
    /\ \E step \in {0, 1}, p \in DayPayloads :
        LET last == IF samples = << >> THEN 0 ELSE samples[Len(samples)].day
        IN samples' = Append(samples, Sample(last + step, p))
    /\ UNCHANGED <<selectedLocation, weatherData, loading, error,
                   locationResolving, apiConfigured, pc, locationData,
                   currentData, outcome, lastErr, lastGeo, candidates, curRes, fcRes,
                   geoCalls, curCalls, fcCalls, mockRuns, overlap>>

DayNext == DayPush \/ AggDeliver

SpecDay == AggInit /\ [][DayNext]_vars

-----------------------------------------------------------------------------
(* The advisory rules on their own: an invocation suspended at the forecast *)
(* request whose current-conditions reading is drawn from values on both    *)
(* sides of every threshold; the response then arrives with no samples.     *)

\* temp_max in tenths; rounds to 19, 20, 35, 36, 38
AdviceTemps == {190, 200, 350, 360, 380}

\* rain1h in tenths; rounds to 4, 5, 15, 16, 20
AdviceRains == {40, 50, 150, 160, 200}

AdviceHumidities == {80, 81, 85}

\* wind speed in tenths of m/s; 20, 21 and 25 km/h after conversion
AdviceSpeeds == {56, 58, 69}

AdviceInit ==
    /\ selectedLocation = << "d", "e", "l", "h", "i" >>
    /\ weatherData = NoData
    /\ loading = TRUE
    /\ error = NoMsg
    /\ locationResolving = FALSE
    /\ apiConfigured = TRUE
    /\ pc = "forecast"
    /\ locationData = LocationInfo(<< GeoDelhi >>)
    /\ \E t \in AdviceTemps, r \in AdviceRains, h \in AdviceHumidities,
          w \in AdviceSpeeds :
          currentData = [kind |-> "data", temp_max |-> t, temp_min |-> 180,
                         humidity |-> h, hasRain |-> TRUE, rain1h |-> r,
                         speed |-> w, main |-> "Clouds"]
    /\ samples = << >>
    /\ outcome = "pending"
    /\ lastErr = NoMsg
    /\ lastGeo = "ok"
    /\ candidates = << GeoDelhi >>
    /\ curRes = "ok" /\ fcRes = "none"
    /\ geoCalls = 1 /\ curCalls = 1 /\ fcCalls = 1
    /\ mockRuns = 0
    /\ overlap = FALSE
    /\ HomeInit
    /\ ChatInit
    /\ ForecastInit

AdviceNext == AggDeliver

SpecAdvice == AdviceInit /\ [][AdviceNext]_vars

-----------------------------------------------------------------------------
(* The crop-impact panel (lines 1010-1037), rendered from the displayed     *)
(* report: for each crop the two phrases chosen by the conditions of the    *)
(* JSX.                                                                     *)

\* the variant reads the summary of tomorrow when the forecast has one
CropImpact_tomorrow(data) ==
    LET c == IF Len(data.forecast) >= 2 THEN data.forecast[2] ELSE data.current
    IN [ wheat  |-> << IF c.tmax > 30 THEN "challenging" ELSE "favorable",
                       IF c.rainfall > 10
                       THEN "Excess moisture may cause fungal issues."
                       ELSE "Monitor irrigation needs." >>,
         rice   |-> << IF c.rainfall > 15 THEN "benefit from current rainfall"
                       ELSE "need additional irrigation",
                       IF c.tmax > 35 THEN "too high" ELSE "suitable" >>,
         cotton |-> << IF c.humidity > 70
                       THEN "at risk of pest issues due to high humidity"
                       ELSE "in good conditions",
                       IF c.windSpeed > 15
                       THEN "Strong winds may affect flowering." ELSE "" >>,
         maize  |-> << IF c.tmax < 35 /\ c.rainfall < 20 THEN "optimal"
                       ELSE "stressed",
                       IF c.rainfall > 20 THEN "Ensure proper drainage." ELSE "" >> ]

CropImpact(data) ==
    LET c == data.current
    IN [ wheat  |-> << IF c.tmax > 30 THEN "challenging" ELSE "favorable",
                       IF c.rainfall > 10
                       THEN "Excess moisture may cause fungal issues."
                       ELSE "Monitor irrigation needs." >>,
         rice   |-> << IF c.rainfall > 15 THEN "benefit from current rainfall"
                       ELSE "need additional irrigation",
                       IF c.tmax > 35 THEN "too high" ELSE "suitable" >>,
         cotton |-> << IF c.humidity > 70
                       THEN "at risk of pest issues due to high humidity"
                       ELSE "in good conditions",
                       IF c.windSpeed > 15
                       THEN "Strong winds may affect flowering." ELSE "" >>,
         maize  |-> << IF c.tmax < 35 /\ c.rainfall < 20 THEN "optimal"
                       ELSE "stressed",
                       IF c.rainfall > 20 THEN "Ensure proper drainage." ELSE "" >> ]

\* temp_max in tenths; rounds to 30, 31, 34, 35, 36
ImpactTemps == {300, 310, 340, 350, 360}

\* rain1h in tenths; rounds to 10, 11, 15, 16, 19, 20, 21
ImpactRains == {100, 110, 150, 160, 190, 200, 210}

ImpactHumidities == {70, 71}

\* wind speed in tenths of m/s; 15 and 16 km/h after conversion
ImpactSpeeds == {42, 44}

\* the invocation is suspended at the forecast request; the response that is
\* on its way has one of the sample lists of PipelineLists
ImpactInit ==
    /\ selectedLocation = << "d", "e", "l", "h", "i" >>
    /\ weatherData = NoData
    /\ loading = TRUE
    /\ error = NoMsg
    /\ locationResolving = FALSE
    /\ apiConfigured = TRUE
    /\ pc = "forecast"
    /\ locationData = LocationInfo(<< GeoDelhi >>)
    /\ \E t \in ImpactTemps, r \in ImpactRains, h \in ImpactHumidities,
          w \in ImpactSpeeds :
          currentData = [kind |-> "data", temp_max |-> t, temp_min |-> 180,
                         humidity |-> h, hasRain |-> TRUE, rain1h |-> r,
                         speed |-> w, main |-> "Clouds"]
    /\ samples \in PipelineLists
    /\ outcome = "pending"
    /\ lastErr = NoMsg
    /\ lastGeo = "ok"
    /\ candidates = << GeoDelhi >>
    /\ curRes = "ok" /\ fcRes = "none"
    /\ geoCalls = 1 /\ curCalls = 1 /\ fcCalls = 1
    /\ mockRuns = 0
    /\ overlap = FALSE
    /\ HomeInit
    /\ ChatInit
    /\ ForecastInit

ImpactNext == AggDeliver

SpecImpact == ImpactInit /\ [][ImpactNext]_vars

-----------------------------------------------------------------------------
(* Properties *)

\* the summaries of a report: the current one and the forecast days
Summaries(r) == << r.current >> \o r.forecast

AllSummaries(r, P(_)) == \A i \in 1..Len(Summaries(r)) : P(Summaries(r)[i])

SampleDates(list) == {list[i].day : i \in 1..Len(list)}

\* the resolver or one of the two weather requests of the invocation failed,
\* or fetchWeatherData caught an error of any other cause
RequestFailed ==
    \/ lastGeo \in {"empty", "http 401", "http 404", "http 429", "http other", "network"}
    \/ curRes = "failed"
    \/ fcRes = "failed"
    \/ lastErr # NoMsg

\* C1: once the location resolution or a weather request of an invocation has
\* failed, the invocation is over (not loading, not suspended), the fallback
\* generator has run, and the displayed report is a synthetic one of 7 days:
\* there is no state with a failure and no report.
C1_FailureStillPublishes ==
    RequestFailed =>
        /\ pc = "idle" /\ ~loading
        /\ mockRuns = 1
        /\ weatherData # NoData
        /\ weatherData.source = "mock"
        /\ Len(weatherData.forecast) = 7

C1_Witness ==
    /\ fcRes = "failed" /\ curRes = "ok"
    /\ weatherData.source = "mock"
    /\ Len(weatherData.forecast) = 7

\* C2 (as claimed): when an invocation has ended degraded, the error shown to
\* the user is not empty.
C2_DegradedShowsAdvisory ==
    (pc = "idle" /\ outcome = "degraded") => error # NoMsg

\* C3 (as claimed): a click while the text trims to one character issues no
\* request, does not run the fallback generator, leaves the displayed report
\* as it was and leaves the validation error shown.
C3_OneCharRejected ==
    [][ ( /\ ~loading /\ ~locationResolving
          /\ Len(Trim(selectedLocation)) = 1
          /\ selectedLocation' = selectedLocation )
        => ( /\ geoCalls' = 0 /\ curCalls' = 0 /\ fcCalls' = 0
             /\ mockRuns' = 0
             /\ weatherData' = weatherData
             /\ error' = MsgTooShort ) ]_vars

C5_BuiltinSkipsGeocoding ==
    (loading /\ BuiltinMatch(Trim(selectedLocation)) # 0) =>
        /\ geoCalls = 0
        /\ locationData # NoLoc =>
              /\ locationData.lat = locations[BuiltinMatch(Trim(selectedLocation))].lat
              /\ locationData.lon = locations[BuiltinMatch(Trim(selectedLocation))].lon

\* the failure classes of the resolver's messages: the generic message of
\* line 613 is the provider-failure class
ErrorClass(msg) ==
    CASE msg.tag = MsgInvalidKey.tag -> "AuthError"
      [] msg.tag = MsgTooMany.tag -> "RateLimited"
      [] msg.tag = MsgNotFoundDifferent(<< >>).tag -> "LocationNotFound"
      [] msg.tag = MsgNotFoundSpelling(<< >>).tag -> "LocationNotFound"
      [] msg.tag = MsgUnableToFind(<< >>, NoMsg).tag -> "ProviderUnavailable"
      [] OTHER -> "none"

\* C6 (as claimed): the resolver's error is classified by cause: 401 as
\* AuthError, 429 as RateLimited, 404 or an empty candidate list as
\* LocationNotFound, no response as ProviderUnavailable.
C6_ErrorsClassifiedByCause ==
    /\ lastGeo = "http 401" => ErrorClass(lastErr) = "AuthError"
    /\ lastGeo = "http 429" => ErrorClass(lastErr) = "RateLimited"
    /\ lastGeo \in {"http 404", "empty"} => ErrorClass(lastErr) = "LocationNotFound"
    /\ lastGeo = "network" => ErrorClass(lastErr) = "ProviderUnavailable"

\* C7: a displayed report is of one source: all its summaries come from the
\* two provider responses and both requests of the invocation succeeded, or
\* all its summaries are synthetic; after an invocation in which only one of
\* the two requests succeeded the report is the synthetic one.
C7_SingleSource ==
    /\ weatherData # NoData =>
          \/ /\ weatherData.source = "live"
             /\ AllSummaries(weatherData, LAMBDA s : s.src \in {"current", "forecast"})
          \/ /\ weatherData.source = "mock"
             /\ AllSummaries(weatherData, LAMBDA s : s.src = "mock")
    /\ outcome = "ready" =>
          /\ curRes = "ok" /\ fcRes = "ok"
          /\ weatherData.source = "live"
    /\ (pc = "idle" /\ (curRes = "ok") # (fcRes = "ok")) =>
          /\ weatherData.source = "mock"
          /\ AllSummaries(weatherData, LAMBDA s : s.src = "mock")

C7_Witness ==
    /\ pc = "idle"
    /\ curRes = "ok" /\ fcRes = "failed" /\ currentData.kind = "data"
    /\ weatherData.source = "mock"

\* C8 (as claimed): every summary of a displayed report has tempMax >= tempMin.
C8_MaxAtLeastMin ==
    weatherData # NoData => AllSummaries(weatherData, LAMBDA s : s.tmax >= s.tmin)

\* C9 (as claimed): every summary of a displayed report has rainfall >= 0 and
\* humidity >= 0.
C9_RainAndHumidityNonNegative ==
    weatherData # NoData =>
        AllSummaries(weatherData, LAMBDA s : s.rainfall >= 0 /\ s.humidity >= 0)

\* C10: the forecast of a live report has min(7, number of distinct dates of
\* the samples) summaries, so never more than 7.
C10_AggregateLength ==
    outcome = "ready" =>
        /\ Len(weatherData.forecast) = Min(7, Cardinality(SampleDates(samples)))
        /\ Len(weatherData.forecast) <= 7

C10_Witness ==
    /\ outcome = "ready"
    /\ Cardinality(SampleDates(samples)) > 7
    /\ Len(weatherData.forecast) = 7

\* the dates of a sample list that are among its first seven distinct dates
FirstSevenDates(list) ==
    {d \in SampleDates(list) : Cardinality({e \in SampleDates(list) : e < d}) < 7}

\* the temperatures of the samples of date d
TempsOf(list, d) == {list[k].temp : k \in {j \in 1..Len(list) : list[j].day = d}}

\* C11 (as claimed): for a non-empty sample list the forecast of a live report
\* is in strictly ascending date order, without duplicate dates, and has one
\* summary for each of the first seven distinct dates of the samples.
C11_AscendingOnePerDate ==
    (outcome = "ready" /\ samples # << >>) =>
        LET f == weatherData.forecast
        IN /\ \A i \in 1..(Len(f) - 1) : f[i].date < f[i + 1].date
           /\ {f[i].date : i \in 1..Len(f)} = FirstSevenDates(samples)

\* C12: the first summary of a non-empty forecast is the report's current
\* summary, its values those of the current-conditions reading (rounded,
\* wind in km/h, condition mapped); every later summary is derived from the
\* samples of its own date.
C12_FirstIsCurrent ==
    (outcome = "ready" /\ samples # << >>) =>
        LET f == weatherData.forecast
            c == currentData
        IN /\ f[1] = weatherData.current
           /\ f[1].tmax = (c.temp_max + 5) \div 10
           /\ f[1].tmin = (c.temp_min + 5) \div 10
           /\ f[1].humidity = c.humidity
           /\ f[1].rainfall = (IF c.hasRain THEN (c.rain1h + 5) \div 10 ELSE 0)
           /\ f[1].windSpeed = (36 * c.speed + 50) \div 100
           /\ f[1].condition = getWeatherCondition(c.main)
           /\ f[1].src = "current"
           /\ \A i \in 2..Len(f) :
                 /\ f[i].src = "forecast"
                 /\ \E hi \in TempsOf(samples, f[i].date) :
                       /\ \A t \in TempsOf(samples, f[i].date) : t <= hi
                       /\ f[i].tmax = (hi + 5) \div 10
                 /\ \E lo \in TempsOf(samples, f[i].date) :
                       /\ \A t \in TempsOf(samples, f[i].date) : lo <= t
                       /\ f[i].tmin = (lo + 5) \div 10

C12_Witness ==
    /\ outcome = "ready"
    /\ Len(weatherData.forecast) >= 2
    /\ samples[1].day = 0
    /\ \A t \in TempsOf(samples, 0) :
          (t + 5) \div 10 # weatherData.forecast[1].tmax

\* no threshold rule fires for the summary c
NoRuleFires(c) ==
    /\ c.rainfall >= 5 /\ c.rainfall <= 15
    /\ c.tmax >= 20 /\ c.tmax <= 35
    /\ c.humidity <= 80
    /\ c.windSpeed <= 20

HasLine(a, line) == \E i \in 1..Len(a) : a[i] = line

HasAll(a, lines) == \A line \in lines : HasLine(a, line)

HasNone(a, lines) == \A line \in lines : ~HasLine(a, line)

NormalLine == "Normal weather conditions - continue regular farming activities"

HeavyRainLines ==
    { "Heavy rainfall expected - ensure proper drainage in fields",
      "Postpone harvesting activities if possible",
      "Good time for transplanting rice and other water-loving crops" }

LowRainLines ==
    { "Low rainfall - consider irrigation for water-sensitive crops",
      "Good conditions for harvesting mature crops",
      "Monitor soil moisture levels closely" }

HeatLines == { "High temperatures - provide shade for livestock",
               "Schedule farm work during cooler hours" }

ColdLines == { "Cool weather - protect sensitive crops from cold",
               "Consider frost protection measures" }

HumidityLines == { "High humidity - watch for fungal diseases in crops",
                   "Ensure good air circulation in greenhouses" }

WindLines == { "Strong winds expected - secure loose structures",
               "Protect young plants from wind damage" }

\* C13: the advice of a report is the normal-conditions message alone exactly
\* when no threshold rule fires for its current summary (rainfall in 5..15,
\* tempMax in 20..35, humidity <= 80, wind <= 20); when a rule fires the
\* message is absent.
C13_DefaultIffNoRule ==
    weatherData # NoData =>
        LET a == weatherData.farmingAdvice
            c == weatherData.current
        IN /\ NoRuleFires(c) <=> (a = << NormalLine >>)
           /\ ~NoRuleFires(c) => ~HasLine(a, NormalLine)

C13_Witness ==
    /\ weatherData # NoData
    /\ weatherData.current.rainfall = 15 /\ weatherData.current.tmax = 35
    /\ weatherData.current.humidity = 80 /\ weatherData.current.windSpeed = 20
    /\ weatherData.farmingAdvice = << NormalLine >>

\* C14: each group of advice lines is present, whole, exactly when its strict
\* threshold holds, and absent otherwise; the list has no other lines, so the
\* two rainfall groups never appear together, nor the two temperature groups.
\* For rainfall 20, tempMax 38, humidity 85, wind 25 the drainage, shade,
\* fungal and secure-structures lines are present.
C14_GroupsIffThresholds ==
    weatherData # NoData =>
        LET a == weatherData.farmingAdvice
            c == weatherData.current
            group(lines, fires) ==
                IF fires THEN HasAll(a, lines) ELSE HasNone(a, lines)
            size(fires, n) == IF fires THEN n ELSE 0
        IN /\ group(HeavyRainLines, c.rainfall > 15)
           /\ group(LowRainLines, c.rainfall < 5)
           /\ group(HeatLines, c.tmax > 35)
           /\ group(ColdLines, c.tmax < 20)
           /\ group(HumidityLines, c.humidity > 80)
           /\ group(WindLines, c.windSpeed > 20)
           /\ ~NoRuleFires(c) =>
                 Len(a) = size(c.rainfall > 15, 3) + size(c.rainfall < 5, 3)
                          + size(c.tmax > 35, 2) + size(c.tmax < 20, 2)
                          + size(c.humidity > 80, 2) + size(c.windSpeed > 20, 2)
           /\ ~(HasAll(a, HeavyRainLines) /\ HasAll(a, LowRainLines))
           /\ ~(HasAll(a, HeatLines) /\ HasAll(a, ColdLines))
           /\ (c.rainfall = 20 /\ c.tmax = 38 /\ c.humidity = 85 /\ c.windSpeed = 25) =>
                 /\ HasLine(a, "Heavy rainfall expected - ensure proper drainage in fields")
                 /\ HasLine(a, "High temperatures - provide shade for livestock")
                 /\ HasLine(a, "High humidity - watch for fungal diseases in crops")
                 /\ HasLine(a, "Strong winds expected - secure loose structures")

C14_Witness ==
    /\ weatherData # NoData
    /\ weatherData.current.rainfall = 20 /\ weatherData.current.tmax = 38
    /\ weatherData.current.humidity = 85 /\ weatherData.current.windSpeed = 25
    /\ Len(weatherData.farmingAdvice) = 9

\* C15: in every displayed report, live or synthetic, the advice is the
\* result of the advisory rules for the report's current summary, and the
\* current summary is the first forecast summary when there is one.
C15_AdviceOfCurrent ==
    weatherData # NoData =>
        /\ weatherData.farmingAdvice = generateFarmingAdvice(weatherData.current)
        /\ weatherData.forecast # << >> =>
              weatherData.forecast[1] = weatherData.current

C15_Witness ==
    /\ weatherData # NoData
    /\ weatherData.source = "mock"
    /\ weatherData.farmingAdvice # << NormalLine >>
    /\ weatherData.forecast[1] = weatherData.current

\* C18 (as claimed): the two weather requests are issued together once the
\* coordinates are known: whenever the current-conditions request has been
\* issued, so has the forecast request, also when the former has failed.
C18_WeatherRequestsConcurrent ==
    /\ curCalls = 1 => fcCalls = 1
    /\ curRes = "failed" => fcCalls = 1

\* C19: an invocation issues each of its three requests at most once; once a
\* request has failed the invocation is over with the fallback generator run
\* once, and no later request of the invocation has been issued.
C19_NoRetry ==
    /\ geoCalls <= 1 /\ curCalls <= 1 /\ fcCalls <= 1
    /\ RequestFailed =>
          /\ pc = "idle"
          /\ mockRuns = 1
          /\ outcome = "degraded"
    /\ lastGeo \notin {"none", "ok"} => (curCalls = 0 /\ fcCalls = 0)
    /\ curRes = "failed" => fcCalls = 0

C19_Witness ==
    /\ curRes = "failed"
    /\ geoCalls = 1 /\ curCalls = 1 /\ fcCalls = 0
    /\ mockRuns = 1
    /\ pc = "idle"

\* C20: when the geocoding response is a non-empty candidate list, the
\* resolved location has the coordinates, name, state and country of the
\* first candidate, whatever the other candidates are.
C20_FirstCandidate ==
    candidates # << >> =>
        /\ locationData # NoLoc
        /\ locationData.lat = candidates[1].lat
        /\ locationData.lon = candidates[1].lon
        /\ locationData.name = candidates[1].name
        /\ locationData.state = candidates[1].state
        /\ locationData.country = candidates[1].country

C20_Witness ==
    /\ Len(candidates) = 2
    /\ candidates[1] # candidates[2]
    /\ locationData # NoLoc
    /\ locationData.name = candidates[1].name

\* what the crop selector displays (lines 192-216)
CropsShown == IF SelectorRendered /\ isDropdownOpen THEN filteredCrops ELSE << >>

NoCropsFoundShown == SelectorRendered /\ isDropdownOpen /\ filteredCrops = << >>

\* the available crops whose name contains the text, case-insensitively
MatchingCrops(text) ==
    SelectSeq(availableCrops,
              LAMBDA crop : \E i \in 0..(Len(crop) - Len(text)) :
                  ToLowerCase(SubSeq(crop, i + 1, i + Len(text))) = ToLowerCase(text))

C17_TypingFiltersTheList ==
    (lastEvent = "change" /\ SelectorRendered) =>
        /\ isDropdownOpen => CropsShown = MatchingCrops(selectedCrop)
        /\ NoCropsFoundShown <=> (MatchingCrops(selectedCrop) = << >>)

\* the samples of date d, in list order
SamplesOf(list, d) == SelectSeq(list, LAMBDA x : x.day = d)

\* r is x rounded to the nearest integer, halves upwards, for x = num / den
IsRounded(r, num, den) == (2 * r - 1) * den <= 2 * num /\ 2 * num < (2 * r + 1) * den

Occurrences(g, v) == Cardinality({k \in 1..Len(g) : g[k].main = v})

\* the place of the last sample of g whose condition value is v
LastOccurrence(g, v) ==
    CHOOSE k \in 1..Len(g) : g[k].main = v /\ \A j \in (k + 1)..Len(g) : g[j].main # v

\* C22: the condition of a summary computed from a date group is a value of
\* the group that no other value outnumbers, and among the values that occur
\* as often its last occurrence is the latest; the icon is the icon of that
\* same value.
C22_MostFrequentLastWins ==
    (outcome = "ready" /\ samples # << >>) =>
        \A i \in 2..Len(weatherData.forecast) :
            LET s == weatherData.forecast[i]
                g == SamplesOf(samples, s.date)
                w == s.condition
            IN /\ \E k \in 1..Len(g) : g[k].main = w
               /\ \A k \in 1..Len(g) :
                     \/ g[k].main = w
                     \/ Occurrences(g, g[k].main) < Occurrences(g, w)
                     \/ /\ Occurrences(g, g[k].main) = Occurrences(g, w)
                        /\ LastOccurrence(g, g[k].main) < LastOccurrence(g, w)
               /\ s.icon = getWeatherEmoji(w)

\* a tie of two values with two samples each, the winner occurring first and last
C22_Witness ==
    /\ outcome = "ready"
    /\ Len(samples) = 5
    /\ Len(weatherData.forecast) = 2
    /\ LET g == SamplesOf(samples, weatherData.forecast[2].date)
       IN /\ Len(g) = 4
          /\ g[1].main = "Clear" /\ g[2].main = "Rain"
          /\ g[3].main = "Rain" /\ g[4].main = "Clear"
    /\ weatherData.forecast[2].condition = "Clear"

\* the normalized enumeration of conditions (the values of getWeatherCondition)
NormalizedConditions ==
    {"Sunny", "Cloudy", "Rainy", "Thunderstorm", "Snowy", "Partly Cloudy"}

\* C23 (as claimed): every summary of a live report, the current one and each
\* forecast day, has a condition of the normalized enumeration; no raw value
\* of the provider appears as a condition.
C23_ConditionsNormalized ==
    (weatherData # NoData /\ weatherData.source = "live") =>
        AllSummaries(weatherData, LAMBDA x : x.condition \in NormalizedConditions)

\* the advice lines in the order of the rules (lines 746-772)
RuleOrder ==
    << "Heavy rainfall expected - ensure proper drainage in fields",
       "Postpone harvesting activities if possible",
       "Good time for transplanting rice and other water-loving crops",
       "Low rainfall - consider irrigation for water-sensitive crops",
       "Good conditions for harvesting mature crops",
       "Monitor soil moisture levels closely",
       "High temperatures - provide shade for livestock",
       "Schedule farm work during cooler hours",
       "Cool weather - protect sensitive crops from cold",
       "Consider frost protection measures",
       "High humidity - watch for fungal diseases in crops",
       "Ensure good air circulation in greenhouses",
       "Strong winds expected - secure loose structures",
       "Protect young plants from wind damage" >>

RankOf(line) == CHOOSE k \in 1..Len(RuleOrder) : RuleOrder[k] = line

\* C24: the lines of an advice list are in rule order: rainfall lines, then
\* temperature lines, then humidity lines, then wind lines, each group in its
\* fixed order, whatever the values are.
C24_RuleOrder ==
    (weatherData # NoData /\ weatherData.farmingAdvice # << NormalLine >>) =>
        LET a == weatherData.farmingAdvice
        IN /\ \A i \in 1..Len(a) : \E k \in 1..Len(RuleOrder) : RuleOrder[k] = a[i]
           /\ \A i \in 1..(Len(a) - 1) : RankOf(a[i]) < RankOf(a[i + 1])

\* rainfall just over its threshold, wind far over its own: the rainfall
\* lines still come first
C24_Witness ==
    /\ weatherData # NoData
    /\ weatherData.current.rainfall = 16
    /\ weatherData.current.windSpeed = 25
    /\ weatherData.farmingAdvice[1] = RuleOrder[1]
    /\ weatherData.farmingAdvice[Len(weatherData.farmingAdvice)] = RuleOrder[14]

\* C25: the phrases of the crop-impact panel are decided by the current
\* summary of the displayed report alone: wheat challenging iff tempMax > 30,
\* moisture caveat iff rainfall > 10; rice benefits iff rainfall > 15, too
\* high iff tempMax > 35; cotton at risk iff humidity > 70, wind note iff
\* windSpeed > 15; maize optimal iff tempMax < 35 and rainfall < 20, drainage
\* note iff rainfall > 20 (at rainfall 20: stressed, no drainage note).
C25_CropImpactThresholds ==
    weatherData # NoData =>
        LET c == weatherData.current
            m == CropImpact(weatherData)
        IN /\ (m.wheat[1] = "challenging") <=> (c.tmax > 30)
           /\ (m.wheat[1] = "favorable") <=> ~(c.tmax > 30)
           /\ (m.wheat[2] = "Excess moisture may cause fungal issues.") <=> (c.rainfall > 10)
           /\ (m.wheat[2] = "Monitor irrigation needs.") <=> ~(c.rainfall > 10)
           /\ (m.rice[1] = "benefit from current rainfall") <=> (c.rainfall > 15)
           /\ (m.rice[1] = "need additional irrigation") <=> ~(c.rainfall > 15)
           /\ (m.rice[2] = "too high") <=> (c.tmax > 35)
           /\ (m.rice[2] = "suitable") <=> ~(c.tmax > 35)
           /\ (m.cotton[1] = "at risk of pest issues due to high humidity") <=> (c.humidity > 70)
           /\ (m.cotton[1] = "in good conditions") <=> ~(c.humidity > 70)
           /\ (m.cotton[2] = "Strong winds may affect flowering.") <=> (c.windSpeed > 15)
           /\ (m.maize[1] = "optimal") <=> (c.tmax < 35 /\ c.rainfall < 20)
           /\ (m.maize[1] = "stressed") <=> ~(c.tmax < 35 /\ c.rainfall < 20)
           /\ (m.maize[2] = "Ensure proper drainage.") <=> (c.rainfall > 20)
           /\ c.rainfall = 20 => m.maize = << "stressed", "" >>

\* a cool, dry tomorrow after a hot current reading with rainfall exactly 20
C25_Witness ==
    /\ weatherData # NoData
    /\ weatherData.source = "live"
    /\ Len(weatherData.forecast) >= 2
    /\ weatherData.current.rainfall = 20 /\ weatherData.current.tmax = 34
    /\ weatherData.forecast[2].rainfall < 20
    /\ CropImpact(weatherData).maize = << "stressed", "" >>

\* C26: at most one invocation of fetchWeatherData is in progress: none is
\* ever started while another is suspended at a request, the loading flag is
\* set for as long as an invocation is in progress, and while a flag is set
\* neither the start of an invocation nor a change of the input happens.
C26_OneInvocationAtATime ==
    [][ /\ ~overlap'
        /\ pc # "idle" => (loading /\ ~ControlsEnabled)
        /\ (loading \/ locationResolving) =>
              /\ ~(pc = "idle" /\ pc' = "geo")
              /\ selectedLocation' = selectedLocation
      ]_vars

\* an invocation in progress while the report of an earlier one is displayed
C26_Witness ==
    /\ pc = "current"
    /\ weatherData # NoData
    /\ loading
    /\ ~overlap

\* C27: when an invocation that passed the empty-input check has ended, with
\* a live report or through the catch block, both flags are false.
C27_FlagsClearedAtEnd ==
    (pc = "idle" /\ outcome \in {"ready", "degraded"}) =>
        (~loading /\ ~locationResolving)

\* an invocation ended through the catch block after the resolver had set
\* its flag and the geocoding request failed
C27_Witness ==
    /\ pc = "idle"
    /\ outcome = "degraded"
    /\ geoCalls = 1 /\ lastGeo = "network"
    /\ ~loading /\ ~locationResolving

\* C28 (as claimed): the loading flag of the Home page is set whenever a
\* fetchCropData call is in flight; and once none is in flight, the last of
\* them has not failed and the input holds a crop, the crop data displayed
\* is that of the selected crop.
C28_LatestCropDisplayed ==
    /\ pendingCrops # << >> => homeLoading
    /\ (pendingCrops = << >> /\ homeError = NoMsg /\ selectedCrop # << >>
          /\ cropData # NoCrop /\ lastEvent = "cropData") =>
          cropData.crop = selectedCrop

\* the replies displayed, in the order of display (the greeting excluded)
RepliesShown == SelectSeq(Tail(messages), LAMBDA msg : msg.sender = "bot")

\* C29: every sent user message has exactly one reply, displayed or
\* pending; the typing indicator is shown whenever a reply is pending; at
\* most one reply is pending at a time, no message being sent while one is;
\* and the replies displayed are in the order of the user messages.
C29_OneReplyAtATime ==
    /\ Len(RepliesShown) + Cardinality(timers) = UserMessages
    /\ \A n \in 1..UserMessages :
          Cardinality({k \in 1..Len(RepliesShown) : RepliesShown[k].number = n})
          + Cardinality({reply \in timers : reply.number = n}) = 1
    /\ timers # {} => isTyping
    /\ Cardinality(timers) <= 1
    /\ \A k \in 1..Len(RepliesShown) : RepliesShown[k].number = k

\* the calendar month after the month of a label
MonthNumber(name) == CHOOSE k \in 1..12 : monthNames[k] = name

NextMonth(label) ==
    IF label.month = "Dec" THEN [month |-> "Jan", year |-> label.year + 1]
    ELSE [month |-> monthNames[MonthNumber(label.month) + 1], year |-> label.year]

Successive(labels) == \A k \in 1..(Len(labels) - 1) : labels[k + 1] = NextMonth(labels[k])

\* C30: for every current month in 1..12, the table and the chart give the
\* predicted price of each index the same month and year, and in each of
\* them a label is followed by the label of the next calendar month, the
\* year increasing exactly from Dec to Jan.
C30_LabelsAgree ==
    currentMonth \in 1..12 =>
        /\ tableLabels = chartLabels
        /\ Successive(tableLabels)
        /\ Successive(chartLabels)

====
